---- MODULE Spec2Model ----
(***************************************************************************)
(* Model of the spaced-repetition scheduler of FlashMath                   *)
(* (src-tauri/src/srs.rs): calculate_srs and next_interval.                *)
(*                                                                         *)
(* Number representation.  The f64 fields are fixed-point integers:        *)
(*   ease_factor     in twentieths      (1.3 = 26, 2.5 = 50, 0.05 = 1)     *)
(*   speed multiplier in tenths         (1.3 = 13, 1.0 = 10, 0.8 = 8)      *)
(*   interval_days   in thousandths of a day (1.0 = 1000, 3.0 = 3000)      *)
(*   speed_ratio     as a reduced fraction <<num, den>>                    *)
(* F64Infinity stands for the f64 value +inf (a finite f64 beyond the      *)
(* range of i64 days behaves the same way in every operation used here).   *)
(* repetitions is an i32: additions and subtractions wrap or panic as the  *)
(* build profile decides.  Instants are counted in ticks, TicksPerDay to   *)
(* the day; a date is a day number and its midnight is day * TicksPerDay.  *)
(***************************************************************************)
EXTENDS Integers, Sequences, FiniteSets, TLC

VARIABLES card, review, deadline, now, now_due, result, pc, history,
          calls, clock

vars == <<card, review, deadline, now, now_due, result, pc, history,
          calls, clock>>

\* the state of the concurrent callers, idle in the sequential specifications
conc_vars == <<calls, clock>>

\* the state of the single call, idle in the concurrent specification
call_vars == <<card, review, deadline, now, now_due, result, pc, history>>

(***************************************************************************)
(* Bounds of the model                                                     *)
(***************************************************************************)
MaxEaseBelow == 2
MaxEaseAbove == 2
IntervalStep == 1000
MaxIntervalSteps == 3
MaxReps == 5
MaxResponse == 6
TimerLimit == 5
NowDay == 1
MaxDeadlineDay == 6
MaxClockDrift == 1
MaxReviews == 5

(***************************************************************************)
(* Program constants and fixed-point scales                                *)
(***************************************************************************)
MIN_EASE == 26
DefaultEase == 50
EaseScale == 20
MultScale == 10
Day == 1000
TicksPerDay == 2
MATURE_REPS == 6
I32Max == 2147483647
F64Infinity == 2000000000

I32Min == -I32Max - 1

(***************************************************************************)
(* f64 and i32 arithmetic                                                  *)
(***************************************************************************)
FMax(a, b) == IF a >= b THEN a ELSE b

FMin(a, b) == IF a <= b THEN a ELSE b

\* prev_interval * ease * speed_multiplier, rounded to the nearest
\* thousandth of a day; +inf absorbs every positive factor.
FMul3(iv, ease, mult) ==
    IF iv = F64Infinity THEN F64Infinity
    ELSE ((iv * ease * mult) + ((EaseScale * MultScale) \div 2))
             \div (EaseScale * MultScale)

\* days_remaining / reviews_still_needed, in thousandths of a day
FDivDays(days, n) == ((days * Day * 2) + n) \div (2 * n)

\* mutant of FRound: `as i64` with no round() before it
FRound_truncating(iv) == iv \div Day

\* f64::round (half away from zero) of a non-negative interval, in days
FRound(iv) == (iv + (Day \div 2)) \div Day

RECURSIVE GCD(_, _)
GCD(a, b) == IF b = 0 THEN a ELSE GCD(b, a % b)

\* a / b for b > 0 as a reduced fraction
FDiv(a, b) == LET g == GCD(a, b) IN <<a \div g, b \div g>>

\* <<n, d>> <= p / q   for d, q > 0
RatioLe(r, p, q) == r[1] * q <= p * r[2]

\* i32 r + 1 with wrap-around: <<value, overflowed>>
I32Inc(r) == IF r = I32Max THEN <<I32Min, TRUE>> ELSE <<r + 1, FALSE>>

\* i32 6 - r with wrap-around: <<value, overflowed>>
I32SubFrom(k, r) ==
    IF r >= k - I32Max THEN <<k - r, FALSE>>
    ELSE <<I32Min + (k - (r - I32Min)), TRUE>>

\* Option<&str>: None, or Some(s) as the one-element sequence <<s>>
None == <<>>

Some(x) == <<x>>

(***************************************************************************)
(* calculate_srs, srs.rs lines 31-103                                      *)
(***************************************************************************)
\* mutant of speed_ratio: an untimed review divides by the zero limit,
\* which f64 division turns into +inf (0/0 aside)
speed_ratio_unguarded(rv) ==
    IF rv.timer_limit_seconds > 0
    THEN FDiv(rv.response_time_seconds, rv.timer_limit_seconds)
    ELSE <<1, 0>>

\* lines 32-36
speed_ratio(rv) ==
    IF rv.timer_limit_seconds > 0
    THEN FDiv(rv.response_time_seconds, rv.timer_limit_seconds)
    ELSE <<1, 1>>

\* mutant of ease_max: the floor is not enforced
ease_max_unclamped(e) == e

\* f64::max(MIN_EASE), lines 46, 64 and 70
ease_max(e) == FMax(e, MIN_EASE)

\* mutant of next_interval: the second step is not fixed at 3.0 days
next_interval_no_second_step(reps, prev_interval, ease, speed_multiplier) ==
    IF reps <= 1 THEN Day
    ELSE FMax(FMul3(prev_interval, ease, speed_multiplier), Day)

\* lines 105-111
next_interval(reps, prev_interval, ease, speed_multiplier) ==
    IF reps <= 1 THEN Day
    ELSE IF reps = 2 THEN 3 * Day
    ELSE FMax(FMul3(prev_interval, ease, speed_multiplier), Day)

\* mutant of increment: `=` where `+=` is meant
increment_assigns(reps, overflow_checks) == [panic |-> FALSE, value |-> 1]

\* repetitions += 1 (lines 53, 59, 65): panics when overflow checks are
\* compiled in, wraps otherwise
increment(reps, overflow_checks) ==
    [panic |-> I32Inc(reps)[2] /\ overflow_checks, value |-> I32Inc(reps)[1]]

\* mutant of incorrect_branch: the repetition count is kept
incorrect_branch_keeps_reps(c) ==
    [quality       |-> 0,
     ease_factor   |-> ease_max(c.ease_factor - 4),
     repetitions   |-> c.repetitions,
     interval_days |-> Day,
     panic         |-> FALSE]

\* lines 43-48: incorrect answer
incorrect_branch(c) ==
    [quality       |-> 0,
     ease_factor   |-> ease_max(c.ease_factor - 4),
     repetitions   |-> 0,
     interval_days |-> Day,
     panic         |-> FALSE]

\* mutant of fast_branch: the multiplier of the slow branch
fast_branch_damped(c, overflow_checks) ==
    LET ease == c.ease_factor + 3
        inc  == increment(c.repetitions, overflow_checks)
    IN  [quality       |-> 5,
         ease_factor   |-> ease,
         repetitions   |-> inc.value,
         interval_days |-> next_interval(inc.value, c.interval_days, ease, 8),
         panic         |-> inc.panic]

\* lines 49-54: correct and fast
fast_branch(c, overflow_checks) ==
    LET ease == c.ease_factor + 3
        inc  == increment(c.repetitions, overflow_checks)
    IN  [quality       |-> 5,
         ease_factor   |-> ease,
         repetitions   |-> inc.value,
         interval_days |-> next_interval(inc.value, c.interval_days, ease, 13),
         panic         |-> inc.panic]

\* mutant of normal_branch: the interval is multiplied by the ease the
\* card came with
normal_branch_stale_ease(c, overflow_checks) ==
    LET ease == c.ease_factor + 1
        inc  == increment(c.repetitions, overflow_checks)
    IN  [quality       |-> 4,
         ease_factor   |-> ease,
         repetitions   |-> inc.value,
         interval_days |-> next_interval(inc.value, c.interval_days,
                                         c.ease_factor, 10),
         panic         |-> inc.panic]

\* lines 55-60: correct and within the time limit
normal_branch(c, overflow_checks) ==
    LET ease == c.ease_factor + 1
        inc  == increment(c.repetitions, overflow_checks)
    IN  [quality       |-> 4,
         ease_factor   |-> ease,
         repetitions   |-> inc.value,
         interval_days |-> next_interval(inc.value, c.interval_days, ease, 10),
         panic         |-> inc.panic]

\* mutant of slow_branch: a slow answer multiplies the interval by 0.3
slow_branch_shrinking(c, overflow_checks) ==
    LET ease == ease_max(c.ease_factor - 2)
        inc  == increment(c.repetitions, overflow_checks)
    IN  [quality       |-> 3,
         ease_factor   |-> ease,
         repetitions   |-> inc.value,
         interval_days |-> next_interval(inc.value, c.interval_days, ease, 3),
         panic         |-> inc.panic]

\* mutant of slow_branch: the ease delta of the incorrect branch
slow_branch_wrong_delta(c, overflow_checks) ==
    LET ease == ease_max(c.ease_factor - 4)
        inc  == increment(c.repetitions, overflow_checks)
    IN  [quality       |-> 3,
         ease_factor   |-> ease,
         repetitions   |-> inc.value,
         interval_days |-> next_interval(inc.value, c.interval_days, ease, 8),
         panic         |-> inc.panic]

\* lines 61-67: correct and over the time limit
slow_branch(c, overflow_checks) ==
    LET ease == ease_max(c.ease_factor - 2)
        inc  == increment(c.repetitions, overflow_checks)
    IN  [quality       |-> 3,
         ease_factor   |-> ease,
         repetitions   |-> inc.value,
         interval_days |-> next_interval(inc.value, c.interval_days, ease, 8),
         panic         |-> inc.panic]

\* mutant of is_fast: the boundary 0.6 is excluded
is_fast_strict(sr) == ~RatioLe(<<6, 10>>, sr[1], sr[2])

\* line 49: speed_ratio <= 0.6
is_fast(sr) == RatioLe(sr, 6, 10)

\* line 55: speed_ratio <= 1.0
is_on_time(sr) == RatioLe(sr, 1, 1)

\* lines 38-67
grade(c, rv, sr, overflow_checks) ==
    IF ~rv.correct THEN incorrect_branch(c)
    ELSE IF is_fast(sr) THEN fast_branch(c, overflow_checks)
    ELSE IF is_on_time(sr) THEN normal_branch(c, overflow_checks)
    ELSE slow_branch(c, overflow_checks)

\* lines 74-77: NaiveDateTime::parse_from_str of the deadline string
parse_deadline(deadline_str) ==
    IF deadline_str.well_formed
    THEN [ok |-> TRUE, date |-> deadline_str.day]
    ELSE [ok |-> FALSE]

\* mutant of days_remaining: a started day counts as a whole one
days_remaining_ceil(deadline_date, t) ==
    LET diff == (deadline_date * TicksPerDay) - t
    IN  IF diff >= 0 THEN (diff + TicksPerDay - 1) \div TicksPerDay
        ELSE -((-diff) \div TicksPerDay)

\* line 79: (deadline_date - now).num_days(), truncated toward zero
days_remaining(deadline_date, t) ==
    LET diff == (deadline_date * TicksPerDay) - t
    IN  IF diff >= 0 THEN diff \div TicksPerDay
        ELSE -((-diff) \div TicksPerDay)

\* mutant of reviews_still_needed: counts from the repetitions before
\* this review's increment
reviews_still_needed_before(repetitions, overflow_checks) ==
    LET d == I32SubFrom(MATURE_REPS + 1, repetitions)
    IN  [panic |-> d[2] /\ overflow_checks,
         value |-> IF d[1] >= 1 THEN d[1] ELSE 1]

\* line 83: (6 - repetitions).max(1)
reviews_still_needed(repetitions, overflow_checks) ==
    LET d == I32SubFrom(MATURE_REPS, repetitions)
    IN  [panic |-> d[2] /\ overflow_checks,
         value |-> IF d[1] >= 1 THEN d[1] ELSE 1]

\* mutant of deadline_ahead: a deadline with no whole day left compresses
deadline_ahead_or_today(remaining) == remaining >= 0

\* line 81: days_remaining > 0.0
deadline_ahead(remaining) == remaining > 0

\* mutant of cap_interval: the one-day floor is dropped
cap_interval_nofloor(interval_days, max_interval) ==
    FMin(interval_days, max_interval)

\* mutant of cap_interval: max where min is meant
cap_interval_swapped(interval_days, max_interval) ==
    FMax(FMax(interval_days, max_interval), Day)

\* line 85: interval_days.min(max_interval).max(1.0)
cap_interval(interval_days, max_interval) ==
    FMax(FMin(interval_days, max_interval), Day)

\* lines 73-88
compress(interval_days, repetitions, dl, t, overflow_checks) ==
    IF dl = None \/ ~parse_deadline(dl[1]).ok
    THEN [panic |-> FALSE, interval_days |-> interval_days]
    ELSE LET remaining == days_remaining(parse_deadline(dl[1]).date, t)
             needed    == reviews_still_needed(repetitions, overflow_checks)
             max_interval == FDivDays(remaining, needed.value)
         IN  IF deadline_ahead(remaining)
             THEN [panic |-> needed.panic,
                   interval_days |-> cap_interval(interval_days, max_interval)]
             ELSE [panic |-> FALSE, interval_days |-> interval_days]

\* mutant of due_date: the offset is taken in a unit shorter than the day
due_date_wrong_unit(t, interval_days) ==
    IF interval_days = F64Infinity THEN [panic |-> TRUE, value |-> 0]
    ELSE [panic |-> FALSE, value |-> t + FRound(interval_days)]

\* lines 91-93: now + Duration::days(interval_days.round() as i64);
\* Duration::days panics outside its range
due_date(t, interval_days) ==
    IF interval_days = F64Infinity THEN [panic |-> TRUE, value |-> 0]
    ELSE [panic |-> FALSE,
          value |-> t + (FRound(interval_days) * TicksPerDay)]

Panicked == [status |-> "panic"]

\* mutant of calculate_srs: a review of an overdue card starts from an
\* interval one day longer
calculate_srs_overdue_bonus(c, rv, dl, t1, t2, overflow_checks) ==
    LET sr   == speed_ratio(rv)
        late == c.due_date # None /\ c.due_date[1] < t2
        g    == grade(IF late THEN [c EXCEPT !.interval_days = @ + Day]
                      ELSE c, rv, sr, overflow_checks)
    IN  IF g.panic THEN Panicked
        ELSE LET ease == ease_max(g.ease_factor)
                 cp   == compress(g.interval_days, g.repetitions, dl, t1,
                                  overflow_checks)
             IN  IF cp.panic \/ due_date(t2, cp.interval_days).panic
                 THEN Panicked
                 ELSE [status        |-> "ok",
                       ease_factor   |-> ease,
                       interval_days |-> cp.interval_days,
                       repetitions   |-> g.repetitions,
                       due_date      |-> due_date(t2, cp.interval_days).value,
                       quality       |-> g.quality,
                       speed_ratio   |-> sr]

\* mutant of calculate_srs: the ease floor of line 70 is enforced inside
\* the deadline block only
calculate_srs_floor_in_block(c, rv, dl, t1, t2, overflow_checks) ==
    LET sr == speed_ratio(rv)
        g  == grade(c, rv, sr, overflow_checks)
    IN  IF g.panic THEN Panicked
        ELSE LET ease == IF dl = None THEN g.ease_factor
                         ELSE ease_max(g.ease_factor)
                 cp   == compress(g.interval_days, g.repetitions, dl, t1,
                                  overflow_checks)
             IN  IF cp.panic \/ due_date(t2, cp.interval_days).panic
                 THEN Panicked
                 ELSE [status        |-> "ok",
                       ease_factor   |-> ease,
                       interval_days |-> cp.interval_days,
                       repetitions   |-> g.repetitions,
                       due_date      |-> due_date(t2, cp.interval_days).value,
                       quality       |-> g.quality,
                       speed_ratio   |-> sr]

\* lines 31-103; t1 is the clock read of line 78, t2 the one of line 91
calculate_srs(c, rv, dl, t1, t2, overflow_checks) ==
    LET sr == speed_ratio(rv)
        g  == grade(c, rv, sr, overflow_checks)
    IN  IF g.panic THEN Panicked
        ELSE LET ease == ease_max(g.ease_factor)
                 cp   == compress(g.interval_days, g.repetitions, dl, t1,
                                  overflow_checks)
             IN  IF cp.panic \/ due_date(t2, cp.interval_days).panic
                 THEN Panicked
                 ELSE [status        |-> "ok",
                       ease_factor   |-> ease,
                       interval_days |-> cp.interval_days,
                       repetitions   |-> g.repetitions,
                       due_date      |-> due_date(t2, cp.interval_days).value,
                       quality       |-> g.quality,
                       speed_ratio   |-> sr]

(***************************************************************************)
(* Inputs of one call                                                      *)
(***************************************************************************)
EaseValues ==
    ((MIN_EASE - MaxEaseBelow) .. (MIN_EASE + MaxEaseAbove)) \cup {DefaultEase}

IntervalValues ==
    {k * IntervalStep : k \in 0 .. MaxIntervalSteps} \cup {F64Infinity}

RepValues == (-1 .. MaxReps) \cup {I32Max}

Cards ==
    [ease_factor : EaseValues, interval_days : IntervalValues,
     repetitions : RepValues]

Reviews ==
    [correct : BOOLEAN, response_time_seconds : 0 .. MaxResponse,
     timer_limit_seconds : {0, TimerLimit}]

DeadlineStrings ==
    {[well_formed |-> FALSE, day |-> 0]}
        \cup {[well_formed |-> TRUE, day |-> d] : d \in 0 .. MaxDeadlineDay}

Deadlines == {None} \cup {Some(s) : s \in DeadlineStrings}

Instants == (NowDay * TicksPerDay) .. ((NowDay * TicksPerDay) + TicksPerDay - 1)

NoResult == [status |-> "none"]

Init ==
    /\ card \in Cards
    /\ review \in Reviews
    /\ deadline \in Deadlines
    /\ now \in Instants
    /\ now_due = now
    /\ result = NoResult
    /\ pc = "call"
    /\ history = <<>>
    /\ calls = <<>>
    /\ clock = 0

\* One call of calculate_srs: the clock reads `now` at line 78 and a
\* possibly later instant, now_due, at line 91; the build has overflow
\* checks or not.
Calculate ==
    /\ pc = "call"
    /\ \E drift \in 0 .. MaxClockDrift, overflow_checks \in BOOLEAN :
          /\ now_due' = now + drift
          /\ result' = calculate_srs(card, review, deadline, now, now + drift,
                                     overflow_checks)
    /\ pc' = "done"
    /\ UNCHANGED <<card, review, deadline, now, history>>
    /\ UNCHANGED conc_vars

Next == Calculate

Spec == Init /\ [][Next]_vars

(***************************************************************************)
(* A card's life: created with the defaults of the flashcards table, then  *)
(* each review's result is written back as the card's next state.          *)
(* history is the list of the outcomes (correct or not) stored so far.     *)
(***************************************************************************)
\* database.rs lines 121-124: ease_factor 2.5, interval_days 0, repetitions 0
NewCard == [ease_factor |-> DefaultEase, interval_days |-> 0, repetitions |-> 0]

\* one review of each outcome: incorrect, fast, on time, slow
SeqReviews ==
    {[correct |-> FALSE, response_time_seconds |-> 0,
      timer_limit_seconds |-> TimerLimit],
     [correct |-> TRUE, response_time_seconds |-> 0,
      timer_limit_seconds |-> TimerLimit],
     [correct |-> TRUE, response_time_seconds |-> TimerLimit,
      timer_limit_seconds |-> TimerLimit],
     [correct |-> TRUE, response_time_seconds |-> MaxResponse,
      timer_limit_seconds |-> TimerLimit]}

\* no deadline, or one some days ahead
SeqDeadlines == {None, Some([well_formed |-> TRUE, day |-> MaxDeadlineDay])}

SeqInit ==
    /\ card = NewCard
    /\ review = [correct |-> FALSE, response_time_seconds |-> 0,
                 timer_limit_seconds |-> 0]
    /\ deadline = None
    /\ now = NowDay * TicksPerDay
    /\ now_due = now
    /\ result = NoResult
    /\ pc = "idle"
    /\ history = <<>>
    /\ calls = <<>>
    /\ clock = 0

\* the SrsResult columns written back to the card
written_back(r) ==
    [ease_factor |-> r.ease_factor, interval_days |-> r.interval_days,
     repetitions |-> r.repetitions]

\* One review submission: calculate_srs on the stored card, then the
\* result replaces the card; a panic stores nothing.
SubmitReview ==
    /\ pc \in {"idle", "stored"}
    /\ Len(history) < MaxReviews
    /\ UNCHANGED conc_vars
    /\ \E rv \in SeqReviews, dl \in SeqDeadlines, t \in Instants,
          drift \in 0 .. MaxClockDrift, overflow_checks \in BOOLEAN :
          LET r == calculate_srs(card, rv, dl, t, t + drift, overflow_checks)
          IN  /\ t >= now_due
              /\ review' = rv
              /\ deadline' = dl
              /\ now' = t
              /\ now_due' = t + drift
              /\ result' = r
              /\ IF r.status = "ok"
                 THEN /\ card' = written_back(r)
                      /\ history' = Append(history, rv.correct)
                      /\ pc' = "stored"
                 ELSE /\ UNCHANGED <<card, history>>
                      /\ pc' = "crashed"

SeqNext == SubmitReview

SpecSeq == SeqInit /\ [][SeqNext]_vars

(***************************************************************************)
(* One call on a stored card, which carries its previous due date          *)
(***************************************************************************)
\* SrsCard::due_date, line 11: absent, overdue or not yet due
DueDates ==
    {None, Some((NowDay - 1) * TicksPerDay), Some((NowDay + 1) * TicksPerDay)}

\* SrsCard with all four fields, lines 6-12
StoredCards ==
    [ease_factor : {MIN_EASE, DefaultEase}, interval_days : {0, Day, 3 * Day},
     repetitions : {0, 2, MaxReps}, due_date : DueDates]

StoredInit ==
    /\ card \in StoredCards
    /\ review \in SeqReviews
    /\ deadline \in SeqDeadlines
    /\ now \in Instants
    /\ now_due = now
    /\ result = NoResult
    /\ pc = "call"
    /\ history = <<>>
    /\ calls = <<>>
    /\ clock = 0

SpecStored == StoredInit /\ [][Next]_vars

(***************************************************************************)
(* Concurrent callers, each invoking calculate_srs on its own snapshot     *)
(***************************************************************************)
NumCallers == 2

Callers == 1 .. NumCallers

\* what a caller hands over at line 31: a new card answered fast, a young
\* card answered slowly under a deadline, a lapsing card, and a card whose
\* repetitions counter is at the top of i32
Snapshots ==
    {[card     |-> NewCard,
      review   |-> [correct |-> TRUE, response_time_seconds |-> 0,
                    timer_limit_seconds |-> TimerLimit],
      deadline |-> None],
     [card     |-> [ease_factor |-> DefaultEase, interval_days |-> 3 * Day,
                    repetitions |-> 2],
      review   |-> [correct |-> TRUE, response_time_seconds |-> MaxResponse,
                    timer_limit_seconds |-> TimerLimit],
      deadline |-> Some([well_formed |-> TRUE, day |-> MaxDeadlineDay])],
     [card     |-> [ease_factor |-> MIN_EASE, interval_days |-> 3 * Day,
                    repetitions |-> 3],
      review   |-> [correct |-> FALSE, response_time_seconds |-> 0,
                    timer_limit_seconds |-> TimerLimit],
      deadline |-> None],
     [card     |-> [ease_factor |-> DefaultEase, interval_days |-> Day,
                    repetitions |-> I32Max],
      review   |-> [correct |-> TRUE, response_time_seconds |-> TimerLimit,
                    timer_limit_seconds |-> TimerLimit],
      deadline |-> None]}

\* a call that has been entered and has not run yet: args are the borrowed
\* card, review and deadline, given is what the caller handed over, the
\* remaining fields are the call's locals
Entered(snapshot, overflow_checks) ==
    [args            |-> snapshot,
     given           |-> snapshot,
     at              |-> "entry",
     overflow_checks |-> overflow_checks,
     ease_factor     |-> 0,
     interval_days   |-> 0,
     repetitions     |-> 0,
     quality         |-> 0,
     speed_ratio     |-> <<1, 1>>,
     t1              |-> 0,
     t2              |-> 0,
     result          |-> NoResult]

\* every caller has entered calculate_srs with a snapshot of its own; the
\* callers run one build
ConcInit ==
    /\ \E overflow_checks \in BOOLEAN :
          \E given \in [Callers -> Snapshots] :
             calls = [id \in Callers |-> Entered(given[id], overflow_checks)]
    /\ clock = NowDay * TicksPerDay
    /\ card = NewCard
    /\ review = [correct |-> FALSE, response_time_seconds |-> 0,
                 timer_limit_seconds |-> 0]
    /\ deadline = None
    /\ now = NowDay * TicksPerDay
    /\ now_due = now
    /\ result = NoResult
    /\ pc = "idle"
    /\ history = <<>>

\* mutant of locals: the intermediate values live in one static slot
locals_static(cs, id) == cs[1]

\* lines 38-40: ease, interval and reps are `let mut` locals of the
\* invocation
locals(cs, id) == cs[id]

\* lines 32-70 of one caller: speed ratio, the graded branch, the ease floor
Grade(id) ==
    /\ calls[id].at = "entry"
    /\ LET a  == calls[id].args
           sr == speed_ratio(a.review)
           g  == grade(a.card, a.review, sr, calls[id].overflow_checks)
       IN  calls' = [calls EXCEPT ![id] =
                IF g.panic
                THEN [@ EXCEPT !.at = "panicked", !.result = Panicked]
                ELSE [@ EXCEPT !.at = "graded",
                               !.speed_ratio = sr,
                               !.quality = g.quality,
                               !.ease_factor = ease_max(g.ease_factor),
                               !.interval_days = g.interval_days,
                               !.repetitions = g.repetitions]]
    /\ UNCHANGED clock
    /\ UNCHANGED call_vars

\* lines 73-88 of one caller: the clock read of line 78 and the compression
Compress(id) ==
    /\ calls[id].at = "graded"
    /\ LET l  == locals(calls, id)
           cp == compress(l.interval_days, l.repetitions,
                          calls[id].args.deadline, clock,
                          calls[id].overflow_checks)
       IN  calls' = [calls EXCEPT ![id] =
                IF cp.panic
                THEN [@ EXCEPT !.at = "panicked", !.t1 = clock,
                               !.result = Panicked]
                ELSE [@ EXCEPT !.at = "compressed", !.t1 = clock,
                               !.interval_days = cp.interval_days]]
    /\ UNCHANGED clock
    /\ UNCHANGED call_vars

\* lines 90-102 of one caller: the clock read of line 91, the due date and
\* the returned SrsResult
Due(id) ==
    /\ calls[id].at = "compressed"
    /\ LET l == locals(calls, id)
           d == due_date(clock, l.interval_days)
       IN  calls' = [calls EXCEPT ![id] =
                IF d.panic
                THEN [@ EXCEPT !.at = "panicked", !.t2 = clock,
                               !.result = Panicked]
                ELSE [@ EXCEPT !.at = "returned", !.t2 = clock,
                               !.result =
                                   [status        |-> "ok",
                                    ease_factor   |-> l.ease_factor,
                                    interval_days |-> l.interval_days,
                                    repetitions   |-> l.repetitions,
                                    due_date      |-> d.value,
                                    quality       |-> l.quality,
                                    speed_ratio   |-> l.speed_ratio]]]
    /\ UNCHANGED clock
    /\ UNCHANGED call_vars

\* the wall clock moves on while the calls run
Tick ==
    /\ clock < (NowDay * TicksPerDay) + MaxClockDrift
    /\ clock' = clock + 1
    /\ UNCHANGED calls
    /\ UNCHANGED call_vars

ConcNext ==
    \/ \E id \in Callers : Grade(id)
    \/ \E id \in Callers : Compress(id)
    \/ \E id \in Callers : Due(id)
    \/ Tick

SpecConc == ConcInit /\ [][ConcNext]_vars

(***************************************************************************)
(* Properties                                                              *)
(***************************************************************************)
Returned == pc = "done" /\ result.status = "ok"

\* the deadline is a well-formed date whose midnight is strictly after now
FutureDeadline ==
    /\ deadline # None
    /\ deadline[1].well_formed
    /\ deadline[1].day * TicksPerDay > now

\* C1: every result calculate_srs returns has ease_factor >= 1.3
\* (MIN_EASE), in all four branches and for every deadline.
C1_EaseFloor == Returned => result.ease_factor >= 26

\* an incorrect review of a card whose ease is already 1.3 returned 1.3
C1_Witness ==
    /\ Returned
    /\ ~review.correct
    /\ card.ease_factor = 26
    /\ result.ease_factor = 26

\* C2: every result calculate_srs returns has interval_days >= 1.0,
\* whether the deadline is absent, malformed, past or very close.
C2_IntervalFloor == Returned => result.interval_days >= 1000

\* a correct third-or-later review whose deadline leaves less than a day
\* per remaining review: the one-day floor decides the interval
C2_Witness ==
    /\ Returned
    /\ review.correct
    /\ card.repetitions = 2
    /\ card.interval_days = 3000
    /\ FutureDeadline
    /\ days_remaining(deadline[1].day, now) = 1
    /\ result.interval_days = 1000

\* C3: an incorrect review always returns, with repetitions = 0,
\* interval_days = 1.0 exactly and quality = 0, whatever the card, the
\* times and the deadline.
C3_RepetitionReset ==
    (pc = "done" /\ ~review.correct) =>
        /\ result.status = "ok"
        /\ result.repetitions = 0
        /\ result.interval_days = 1000
        /\ result.quality = 0

\* an incorrect review of a card with repetitions and a long interval,
\* under a future deadline
C3_Witness ==
    /\ Returned
    /\ ~review.correct
    /\ card.repetitions = 3
    /\ card.interval_days > 1000
    /\ FutureDeadline
    /\ result.repetitions = 0
    /\ result.interval_days = 1000

\* the quality table of the specification, from (correct, speed_ratio)
QualityTable(correct, sr) ==
    IF ~correct THEN 0
    ELSE IF sr[1] * 10 <= 6 * sr[2] THEN 5
    ELSE IF sr[1] <= sr[2] THEN 4
    ELSE 3

\* C4: the returned quality is one of 0, 3, 4, 5 and is the value the
\* table gives for (correct, speed_ratio) alone, boundaries 0.6 and 1.0
\* included on the faster side.
C4_QualityPartition ==
    Returned =>
        /\ result.quality \in {0, 3, 4, 5}
        /\ result.quality = QualityTable(review.correct, result.speed_ratio)

\* a correct review exactly on the boundary 0.6 is graded 5
C4_Witness ==
    /\ Returned
    /\ review.correct
    /\ result.speed_ratio = <<3, 5>>
    /\ result.quality = 5

\* C5: with timer_limit_seconds = 0 the speed_ratio is exactly 1.0 for
\* every response time and a correct review is graded 4; with a positive
\* limit the speed_ratio is response_time_seconds / timer_limit_seconds.
C5_UntimedNeutrality ==
    Returned =>
        /\ review.timer_limit_seconds = 0 =>
              /\ result.speed_ratio = <<1, 1>>
              /\ review.correct => result.quality = 4
        /\ review.timer_limit_seconds > 0 =>
              /\ result.speed_ratio[2] > 0
              /\ result.speed_ratio[1] * review.timer_limit_seconds
                    = review.response_time_seconds * result.speed_ratio[2]

\* an untimed correct review with a long response time
C5_Witness ==
    /\ Returned
    /\ review.timer_limit_seconds = 0
    /\ review.response_time_seconds = MaxResponse
    /\ review.correct
    /\ result.quality = 4

\* the result of the same call at the same instant with no deadline
WithoutDeadline(overflow_checks) ==
    calculate_srs(card, review, None, now, now, overflow_checks)

\* C6: under a well-formed deadline that lies after now, the interval
\* returned is at most the interval the same call returns with no deadline.
C6_DeadlineNeverExtends ==
    (Returned /\ FutureDeadline) =>
        \A b \in BOOLEAN :
            WithoutDeadline(b).status = "ok" =>
                result.interval_days <= WithoutDeadline(b).interval_days

\* a future deadline that shortened the interval
C6_Witness ==
    /\ Returned
    /\ FutureDeadline
    /\ WithoutDeadline(FALSE).status = "ok"
    /\ result.interval_days < WithoutDeadline(FALSE).interval_days

\* C7: for a card with repetitions r >= 0, the returned repetitions is 0
\* exactly when the review is incorrect, and is r + 1 (as a number, which
\* no i32 equals when r is the largest i32) for every correct review.
C7_RepetitionStep ==
    (Returned /\ card.repetitions >= 0) =>
        /\ result.repetitions = 0 <=> ~review.correct
        /\ review.correct =>
              /\ card.repetitions # 2147483647
              /\ result.repetitions = card.repetitions + 1

\* the outcome classes of the specification's table, from the review alone
Outcome ==
    IF ~review.correct THEN "incorrect"
    ELSE IF review.timer_limit_seconds = 0 THEN "on-time"
    ELSE IF review.response_time_seconds * 10 <= 6 * review.timer_limit_seconds
         THEN "fast"
    ELSE IF review.response_time_seconds <= review.timer_limit_seconds
         THEN "on-time"
    ELSE "slow"

\* ease deltas of the table, in twentieths
EaseDelta ==
    CASE Outcome = "incorrect" -> -4
      [] Outcome = "fast"      -> 3
      [] Outcome = "on-time"   -> 1
      [] Outcome = "slow"      -> -2

\* C8: the returned ease_factor is max(card.ease_factor + delta, 1.3) with
\* delta -0.20, +0.15, +0.05, -0.10 for incorrect, fast, on-time, slow.
C8_EaseUpdate ==
    Returned =>
        result.ease_factor =
            IF card.ease_factor + EaseDelta >= 26
            THEN card.ease_factor + EaseDelta ELSE 26

\* a slow correct review of a card at ease 2.5 returned ease 2.4
C8_Witness ==
    /\ Returned
    /\ Outcome = "slow"
    /\ card.ease_factor = 50
    /\ result.ease_factor = 48

\* speed multipliers of the table, in tenths
SpeedMultiplier ==
    CASE Outcome = "fast"    -> 13
      [] Outcome = "on-time" -> 10
      [] Outcome = "slow"    -> 8

\* C9: a correct review with no deadline returns interval 1.0 when
\* r = card.repetitions + 1 <= 1, 3.0 when r = 2, and
\* max(card.interval_days * ease * m, 1.0) when r >= 3, ease being the
\* ease after this review's delta.
C9_IntervalProgression ==
    (Returned /\ review.correct /\ deadline = None) =>
        result.interval_days =
            IF card.repetitions <= 0 THEN 1000
            ELSE IF card.repetitions = 1 THEN 3000
            ELSE LET ease == IF Outcome = "slow"
                             THEN FMax(card.ease_factor + EaseDelta, 26)
                             ELSE card.ease_factor + EaseDelta
                     grown == FMul3(card.interval_days, ease, SpeedMultiplier)
                 IN  IF grown >= 1000 THEN grown ELSE 1000

\* the interval before deadline compression (lines 38-67)
Uncompressed ==
    grade(card, review, speed_ratio(review), FALSE).interval_days

\* max(6 - r, 1) for r the repetitions after this review, as a number:
\* 0 after a lapse, card.repetitions + 1 after a correct answer
NeededAfterReview ==
    IF ~review.correct THEN 6
    ELSE IF card.repetitions >= 5 THEN 1
    ELSE 5 - card.repetitions

CompressionApplies ==
    /\ FutureDeadline
    /\ days_remaining(deadline[1].day, now) >= 1

\* C10: when compression applies, the returned interval is
\* max(min(u, days_remaining / max(6 - r, 1)), 1.0) for u the uncompressed
\* interval and r the repetitions after this review; a card at
\* repetitions 3 answered correctly with the deadline 5 days out gets an
\* interval of at most 3.0.
C10_CompressionFormula ==
    (Returned /\ CompressionApplies) =>
        LET remaining == days_remaining(deadline[1].day, now)
            capped == FMin(Uncompressed,
                           FDivDays(remaining, NeededAfterReview))
        IN  /\ result.interval_days = IF capped >= 1000 THEN capped ELSE 1000
            /\ (/\ card.repetitions = 3
                /\ review.correct
                /\ deadline[1].day = (now \div TicksPerDay) + 5)
                   => result.interval_days <= 3000

\* the card at repetitions 3, answered correctly five days before the
\* deadline, whose interval the deadline shortened
C10_Witness ==
    /\ Returned
    /\ card.repetitions = 3
    /\ review.correct
    /\ deadline # None
    /\ deadline[1].well_formed
    /\ deadline[1].day = (now \div TicksPerDay) + 5
    /\ Uncompressed > 3000
    /\ result.interval_days <= 3000
    /\ result.repetitions = 4

\* the deadline string does not parse, or names a day with no whole day
\* left before its midnight
DeadlineIgnored ==
    /\ deadline # None
    /\ \/ ~deadline[1].well_formed
       \/ days_remaining(deadline[1].day, now) <= 0

\* C11: with a deadline that does not parse or has passed, the call ends
\* as the same call (same clock reads, same build) with deadline None
\* ends: the same six result fields, and no failure of its own.
C11_FailOpenDeadline ==
    (pc = "done" /\ DeadlineIgnored) =>
        \E b \in BOOLEAN :
            result = calculate_srs(card, review, None, now, now_due, b)

\* a malformed deadline left a grown interval as it was
C11_Witness ==
    /\ Returned
    /\ deadline # None
    /\ ~deadline[1].well_formed
    /\ card.repetitions = 2
    /\ result.interval_days > 3000

\* ticks from now to the deadline's midnight (positive under FutureDeadline)
TicksToDeadline == (deadline[1].day * TicksPerDay) - now

\* max(min(u, days / needed), 1.0) for the call of this state
CappedAt(days) ==
    LET capped == FMin(Uncompressed, FDivDays(days, NeededAfterReview))
    IN  IF capped >= 1000 THEN capped ELSE 1000

\* C12 as stated: compression is skipped exactly when the deadline is
\* absent, unparseable or not strictly after now; every parseable deadline
\* strictly after now, one less than 24 hours ahead included, is counted
\* with days_remaining = ceil(deadline - now) >= 1 and caps the interval at
\* max(days_remaining / reviews_still_needed, 1.0).
C12_CeilingDays ==
    Returned =>
        IF FutureDeadline
        THEN LET days == (TicksToDeadline + TicksPerDay - 1) \div TicksPerDay
                 limit == FDivDays(days, NeededAfterReview)
             IN  result.interval_days <= (IF limit >= 1000 THEN limit ELSE 1000)
        ELSE result.interval_days = Uncompressed

\* C12 amended: compression is skipped exactly when the deadline is absent,
\* unparseable or less than one whole day after now; a parseable deadline
\* at least 24 hours ahead is counted with days_remaining =
\* floor(deadline - now) >= 1 and caps the interval at
\* max(days_remaining / reviews_still_needed, 1.0).
C12_WholeDays ==
    Returned =>
        IF FutureDeadline /\ TicksToDeadline >= TicksPerDay
        THEN LET days == TicksToDeadline \div TicksPerDay
                 limit == FDivDays(days, NeededAfterReview)
             IN  /\ days >= 1
                 /\ result.interval_days = CappedAt(days)
                 /\ result.interval_days
                       <= (IF limit >= 1000 THEN limit ELSE 1000)
        ELSE result.interval_days = Uncompressed

\* a deadline less than 24 hours ahead left a three-day interval alone
C12_Witness ==
    /\ Returned
    /\ FutureDeadline
    /\ TicksToDeadline < TicksPerDay
    /\ result.interval_days = 3000
    /\ Uncompressed = 3000

\* C13: every returned due_date lies a whole number k >= 1 of days after
\* the instant the due date is computed from (the clock read of line 91),
\* hence at least one full day after the start of the computation.
C13_DueDateInFuture ==
    Returned =>
        /\ result.due_date - now_due >= TicksPerDay
        /\ (result.due_date - now_due) % TicksPerDay = 0
        /\ result.due_date >= now + TicksPerDay

\* a deadline so close that the interval is floored at one day: the due
\* date is exactly one day after the computation
C13_Witness ==
    /\ Returned
    /\ CompressionApplies
    /\ Uncompressed > 1000
    /\ result.interval_days = 1000
    /\ result.due_date = now_due + TicksPerDay

\* C14: one call observes the time once: the instant days_remaining is
\* computed from (now) is the instant due_date is offset from, so the
\* result is a function of (card, review, deadline, now) whatever the wall
\* clock does during the call.  Stated for calls with a parseable
\* deadline, where line 78 does read the clock.
C14_SingleClockRead ==
    (pc = "done" /\ deadline # None /\ deadline[1].well_formed) =>
        \E b \in BOOLEAN :
            result = calculate_srs(card, review, deadline, now, now, b)

\* the number of consecutive correct reviews at the end of a history
RECURSIVE Streak(_)
Streak(h) ==
    IF h = <<>> \/ ~h[Len(h)] THEN 0
    ELSE 1 + Streak(SubSeq(h, 1, Len(h) - 1))

\* C15: starting from a new card and writing each result back, the stored
\* repetitions is the number of consecutive correct reviews since the last
\* incorrect one (or since creation), whatever the speeds and deadlines.
C15_RepetitionsAreStreak == card.repetitions = Streak(history)

\* a streak of two correct reviews after a lapse that ended a longer one
C15_Witness ==
    /\ pc = "stored"
    /\ Len(history) = 5
    /\ history[1] /\ history[2] /\ ~history[3] /\ history[4] /\ history[5]
    /\ card.repetitions = 2

\* the documented input domain of a card
InDomain ==
    /\ card.ease_factor >= 26
    /\ card.interval_days >= 0
    /\ card.repetitions >= 0

\* C16: for every card with ease_factor >= 1.3, interval_days >= 0 and
\* 0 <= repetitions <= i32::MAX, every review and every deadline, the call
\* returns (no abort, no overflow) a result with ease_factor >= 1.3,
\* interval_days >= 1.0 and repetitions 0 after an incorrect review,
\* positive after a correct one.
C16_Totality ==
    (pc = "done" /\ InDomain) =>
        /\ result.status = "ok"
        /\ result.ease_factor >= 26
        /\ result.interval_days >= 1000
        /\ result.repetitions >= 0
        /\ result.repetitions = 0 <=> ~review.correct

\* round half away from zero of a non-negative interval, in whole days
RoundHalfAway(iv) == ((2 * iv) + 1000) \div 2000

\* C17: the returned due_date is the instant the due date is computed at
\* (the clock read of line 91) plus round(interval_days) whole days, for
\* the interval_days that is returned, rounding half away from zero:
\* 7.65 gives 8 days and 2.5 gives 3.
C17_DueDateOffset ==
    Returned =>
        /\ result.due_date
              = now_due + (RoundHalfAway(result.interval_days) * TicksPerDay)
        /\ result.interval_days = 7650
              => result.due_date = now_due + (8 * TicksPerDay)
        /\ result.interval_days = 2500
              => result.due_date = now_due + (3 * TicksPerDay)

\* a compressed interval of 2.5 days scheduled 3 days ahead
C17_Witness ==
    /\ Returned
    /\ CompressionApplies
    /\ result.interval_days = 2500
    /\ result.due_date = now_due + (3 * TicksPerDay)

\* an uncompressed interval of 7.65 days scheduled 8 days ahead
C17_Reaches765 ==
    /\ Returned
    /\ result.interval_days = 7650
    /\ result.due_date = now_due + (8 * TicksPerDay)

\* the state's card reviewed correctly at a given speed, with no deadline
Reviewed(response_time, b) ==
    calculate_srs(card,
                  [correct |-> TRUE, response_time_seconds |-> response_time,
                   timer_limit_seconds |-> TimerLimit],
                  None, now, now_due, b)

\* C18: for one card with ease_factor >= 1.3 and interval_days >= 0 and no
\* deadline, a correct fast review returns an interval >= that of a correct
\* on-time review, which is >= that of a correct slow review; the three
\* are equal when the resulting repetitions is <= 2; the returned
\* ease_factor is ordered the same way.  The review of the state itself
\* is one of the three.
C18_SpeedOrdering ==
    (Returned /\ review.correct /\ deadline = None
        /\ card.ease_factor >= 26 /\ card.interval_days >= 0) =>
        \A b \in BOOLEAN :
            LET fast   == Reviewed(0, b)
                ontime == Reviewed(TimerLimit, b)
                slow   == Reviewed(TimerLimit + 1, b)
            IN  (fast.status = "ok" /\ ontime.status = "ok"
                    /\ slow.status = "ok") =>
                    /\ fast.interval_days >= ontime.interval_days
                    /\ ontime.interval_days >= slow.interval_days
                    /\ fast.ease_factor >= ontime.ease_factor
                    /\ ontime.ease_factor >= slow.ease_factor
                    /\ fast.repetitions <= 2 =>
                          /\ fast.interval_days = ontime.interval_days
                          /\ ontime.interval_days = slow.interval_days
                    /\ Outcome = "fast" =>
                          /\ result.interval_days = fast.interval_days
                          /\ result.ease_factor = fast.ease_factor
                    /\ Outcome = "on-time" =>
                          /\ result.interval_days = ontime.interval_days
                          /\ result.ease_factor = ontime.ease_factor
                    /\ Outcome = "slow" =>
                          /\ result.interval_days = slow.interval_days
                          /\ result.ease_factor = slow.ease_factor

\* a fast third review earned a strictly longer interval than an on-time
\* one would have, and that one a strictly longer one than a slow one
C18_Witness ==
    /\ Returned
    /\ deadline = None
    /\ Outcome = "fast"
    /\ card.ease_factor = 50
    /\ card.repetitions = 2
    /\ card.interval_days = 3000
    /\ result.interval_days > Reviewed(TimerLimit, FALSE).interval_days
    /\ Reviewed(TimerLimit, FALSE).interval_days
          > Reviewed(TimerLimit + 1, FALSE).interval_days

\* some review of the history was incorrect
Lapsed == \E i \in 1 .. Len(history) : ~history[i]

\* C19: after a lapse, a correct review with no deadline schedules
\* interval 1.0 when it is the first correct one since the lapse and 3.0
\* when it is the second, whatever the card's interval and ease had grown
\* to before the lapse.
C19_GraduationRestarts ==
    (pc = "stored" /\ Lapsed /\ review.correct /\ deadline = None) =>
        /\ Streak(history) = 1 => result.interval_days = 1000
        /\ Streak(history) = 2 => result.interval_days = 3000

\* three correct reviews grow the interval past 3.0 days, a lapse follows,
\* and the next correct review is scheduled 1.0 day out
C19_Witness ==
    /\ pc = "stored"
    /\ Len(history) = 5
    /\ history[1] /\ history[2] /\ history[3] /\ ~history[4] /\ history[5]
    /\ deadline = None
    /\ result.interval_days = 1000
    /\ result.repetitions = 1
    /\ result.ease_factor > DefaultEase

\* the result of the call of caller id when it runs alone on what it was
\* given and reads the clock at the same two instants
Alone(id) ==
    calculate_srs(calls[id].given.card, calls[id].given.review,
                  calls[id].given.deadline, calls[id].t1, calls[id].t2,
                  calls[id].overflow_checks)

\* C20: under every interleaving of concurrent callers, each call ends as
\* it would have ended alone on its own snapshot, and what a caller handed
\* over is never changed.
C20_IndependentInvocations ==
    \A id \in DOMAIN calls :
        /\ calls[id].args = calls[id].given
        /\ calls[id].at \in {"returned", "panicked"} =>
              calls[id].result = Alone(id)

\* two callers with different snapshots have both returned, and both calls
\* span the same tick of the clock, so they overlapped
C20_Witness ==
    /\ calls # <<>>
    /\ calls[1].at = "returned"
    /\ calls[2].at = "returned"
    /\ calls[1].given # calls[2].given
    /\ calls[1].given.deadline # None
    /\ calls[1].result # calls[2].result
    /\ calls[1].t1 < calls[1].t2
    /\ calls[2].t1 = calls[1].t1
    /\ calls[2].t2 = calls[1].t2

\* C21: whenever compression applies (a parseable deadline with
\* days_remaining >= 1 at now), the returned due_date is not later than
\* midnight of the deadline date, the 1-day floor included.
C21_DueBeforeDeadline ==
    (Returned /\ CompressionApplies) =>
        result.due_date <= deadline[1].day * TicksPerDay

\* stored cards at the first two steps have not outgrown them
GraduationShape ==
    /\ card.repetitions <= 1 => card.interval_days <= Day
    /\ card.repetitions = 2 => card.interval_days <= 3 * Day

\* a correct review with no deadline has just been stored
CorrectStored ==
    /\ pc' = "stored"
    /\ history' # history
    /\ review'.correct
    /\ deadline' = None

\* the stored interval is not below the previous one, and from the third
\* consecutive correct review on it is at least 1.04 (1.3 * 0.8) times it
GrowsOnCorrect ==
    CorrectStored =>
        /\ card'.interval_days >= card.interval_days
        /\ card'.repetitions >= 3 =>
              card'.interval_days >= FMul3(card.interval_days, MIN_EASE, 8)

\* C22: every card reachable from a new card by feeding results back has
\* interval <= 1.0 at repetitions <= 1 and <= 3.0 at repetitions 2; a
\* correct review with no deadline never returns less than the card's
\* previous interval, and from the third consecutive correct review on
\* returns at least 1.04 times it.
C22_CorrectNeverShrinks == []GraduationShape /\ [][GrowsOnCorrect]_vars

\* a third consecutive correct answer, slow, has grown the interval from
\* 3.0 days
C22_Witness ==
    /\ pc = "stored"
    /\ Len(history) = 3
    /\ Streak(history) = 3
    /\ deadline = None
    /\ review.response_time_seconds > review.timer_limit_seconds
    /\ card.repetitions = 3
    /\ card.interval_days > 3 * Day

\* C23: for a correct review of a card with ease_factor >= 1.3 that ends at
\* repetitions >= 3 with no deadline, the interval returned is the card's
\* interval times the ease_factor that is returned times the speed
\* multiplier (floored at 1.0), the slow branch at the ease floor included.
C23_IntervalUsesReturnedEase ==
    (/\ Returned
     /\ review.correct
     /\ deadline = None
     /\ card.ease_factor >= MIN_EASE
     /\ result.repetitions >= 3) =>
        result.interval_days =
            FMax(FMul3(card.interval_days, result.ease_factor,
                       SpeedMultiplier), Day)

\* a slow answer on a card whose ease minus 0.10 is below the floor: the
\* interval is multiplied by the clamped 1.3 that is returned
C23_Witness ==
    /\ Returned
    /\ Outcome = "slow"
    /\ deadline = None
    /\ card.ease_factor = MIN_EASE + 1
    /\ card.repetitions = 2
    /\ card.interval_days = 3 * Day
    /\ result.ease_factor = MIN_EASE
    /\ result.interval_days = FMul3(3 * Day, MIN_EASE, 8)

\* what a call yields apart from its schedule: whether it returns, and the
\* returned ease_factor, repetitions, quality and speed_ratio
Unscheduled(r) ==
    IF r.status = "ok"
    THEN <<r.status, r.ease_factor, r.repetitions, r.quality, r.speed_ratio>>
    ELSE <<r.status>>

\* the call of the same card and review on the same build under a fixed
\* deadline some days ahead and a fixed instant; it returns whenever the
\* call under any other deadline and instant does
Reference(overflow_checks) ==
    calculate_srs(card, review,
                  Some([well_formed |-> TRUE, day |-> MaxDeadlineDay]),
                  NowDay * TicksPerDay, NowDay * TicksPerDay, overflow_checks)

\* C24: for a fixed card and review, the ease_factor, repetitions, quality
\* and speed_ratio that are returned are the same for every deadline
\* (absent, malformed, past, future) and every instant of the clock: each
\* returned result agrees in these fields with the reference call of its
\* card and review, so any two of them agree.
C24_DeadlineOnlySchedules ==
    Returned =>
        \E b \in BOOLEAN :
            /\ result = calculate_srs(card, review, deadline, now, now_due, b)
            /\ Unscheduled(result) = Unscheduled(Reference(b))

\* a call without a deadline returns a longer interval than its reference
\* call and the same four other fields
C24_Witness ==
    /\ Returned
    /\ deadline = None
    /\ now_due > NowDay * TicksPerDay
    /\ result.interval_days > Reference(FALSE).interval_days
    /\ result.due_date > Reference(FALSE).due_date
    /\ result.ease_factor = Reference(FALSE).ease_factor
    /\ result.repetitions = 3

\* C25: cards that differ only in due_date (absent, overdue, not yet due)
\* get the same result for the same review, deadline and clock reads.
C25_PreviousDueIgnored ==
    pc = "done" =>
        \E b \in BOOLEAN :
            \A due \in DueDates :
                result = calculate_srs([card EXCEPT !.due_date = due], review,
                                       deadline, now, now_due, b)

\* an overdue card reviewed correctly for the third time: the interval is
\* the one of line 109, with no penalty
C25_Witness ==
    /\ Returned
    /\ card.due_date # None
    /\ card.due_date[1] < now
    /\ review.correct
    /\ deadline = None
    /\ card.repetitions = 2
    /\ card.interval_days = 3 * Day
    /\ result.interval_days =
          FMul3(3 * Day, result.ease_factor, SpeedMultiplier)

====
